---- MODULE Spec2Model ----
(***************************************************************************)
(* Monthly leave quota (leaveService) and the leave-request routes         *)
(* (routes/leaveRoutes.js) of karyawan-kita-backend.                       *)
(*                                                                         *)
(* Every request handler and every exported service function is an async   *)
(* JavaScript function.  Between two awaited Prisma calls the code runs    *)
(* without interruption; at every await another request may run.  One      *)
(* step of the model is therefore: one Prisma call takes effect, and the   *)
(* code that follows it runs up to the next Prisma call.                   *)
(*                                                                         *)
(* Time is counted in calendar months (clock); a month label "YYYY-MM" is  *)
(* modelled by the ordinal of the month, which orders and compares as the  *)
(* zero-padded label does.                                                 *)
(***************************************************************************)
EXTENDS Integers, FiniteSets, Sequences, TLC

\* ------------------------------------------------------------------ bounds
NProc == 2       \* calls that may be in flight at once (concurrent specifications)
MaxMonth == 2    \* the clock runs over months 1..MaxMonth
MaxQuota == 2    \* monthly_leave_quota of an employee is in 0..MaxQuota
MaxLeave == 1    \* leave requests (and uploaded files) ever created
DayLen == 2      \* time units per day (resolution of an instant)
MaxDays == 3     \* calculateLeaveDays is applied to instants of days 0..MaxDays
MaxAtt == 2      \* rows of the attendance table

Procs == 1..NProc
EmpIds == {1}                       \* rows of the employee table
NoSuchEmp == 0                      \* an employee id with no row
EmpArgs == EmpIds \cup {NoSuchEmp}
LeaveIds == 1..MaxLeave
FileIds == 1..MaxLeave
NoFile == 0                         \* req.file / attachment_filename absent
DayArgs == 0..MaxQuota              \* days argument of a direct service call
MonthLen == DayLen                  \* a month of the model is one day long
\* instants from the start of month 1 to the start of month MaxMonth
Instants == 0..(MonthLen * (MaxMonth - 1))
\* the two dates of a direct call of calculateLeaveDays
CalcInstants == 0..(DayLen * MaxDays)
Kinds == {"Cuti", "Sakit", "Izin"}
StatusArgs == {"pending", "approved", "rejected"}
AttIds == 1..MaxAtt
NoSuchAtt == 0                      \* an attendance_id with no row
AttEmps == {1, 2}                   \* employee_id of attendance rows
AttStatuses == {"alpa", "hadir", "izin", "sakit"}
\* new_status of a convert request; "none": not given
NewStatusArgs == {"hadir", "izin", "sakit", "alpa", "none"}
\* Rp per alpha
DeductionRate == 100000

VARIABLES
  clock,      \* the month the system clock is in
  employee,   \* employee table: id -> [quota, used, month]
  leave,      \* leave_request table: id -> [emp, kind, status, days, lmonth, file]
  nextId,     \* autoincrement of leave_id
  files,      \* uploads/sick-letters
  nextFile,   \* names given to uploads so far
  task,       \* per in-flight call: where it is, its arguments, its locals, its answer
  charge,     \* history: per leave request, how often and when its days were added to used
  pre,        \* history: the tables as the call in progress found them (serial runs)
  serial,     \* whether calls run one at a time (fixed for a run)
  calc,       \* a direct call of calculateLeaveDays: its arguments and its result
  attendance  \* attendance table: id -> [emp, status, tanggal, keterangan]

vars ==
  <<clock, employee, leave, nextId, files, nextFile, task, charge, pre, serial,
    calc, attendance>>

Max(a, b) == IF a >= b THEN a ELSE b
\* Variant: the absolute value left out.
AbsDropped(a) == a

Abs(a) == IF a >= 0 THEN a ELSE -a
CeilDiv(a, b) == (a + b - 1) \div b

\* ------------------------------------------------------- pure functions
\* Variant: the day count without the closing + 1.
calculateLeaveDaysExclusive(startDate, endDate) ==
  CeilDiv(Abs(endDate - startDate), DayLen)

calculateLeaveDays(startDate, endDate) ==
  CeilDiv(Abs(endDate - startDate), DayLen) + 1

getCurrentMonth == clock

\* new Date(tanggal_mulai).toISOString().substring(0, 7)
LeaveMonth(startDate) == (startDate \div MonthLen) + 1

\* ------------------------------------------------------------ task records
NoOut ==
  [quota |-> 0, used |-> 0, remaining |-> 0, wasReset |-> FALSE,
   sufficient |-> FALSE, month |-> 0]

IdleTask ==
  [pc |-> "idle", op |-> "none", emp |-> NoSuchEmp, days |-> 0, id |-> 0,
   status |-> "none", kind |-> "none", lmonth |-> 0, file |-> NoFile,
   cm |-> 0, quota |-> 0, newUsed |-> 0, res |-> "none", out |-> NoOut,
   keterangan |-> "none", tanggal |-> 0, startDate |-> 0, endDate |-> 0,
   leaveRequests |-> << >>, quotaUpdates |-> << >>]

Tables ==
  [employee |-> employee, leave |-> leave, files |-> files,
   attendance |-> attendance]

EmployeeRows ==
  { r \in [quota : 0..MaxQuota, used : 0..MaxQuota, month : 0..1] :
      r.used <= r.quota }

Init ==
  /\ clock = 1
  /\ employee \in [EmpIds -> EmployeeRows]
  /\ leave = << >>
  /\ nextId = 1
  /\ files = {}
  /\ nextFile = 1
  /\ task = [p \in Procs |-> IdleTask]
  /\ charge = [i \in LeaveIds |-> [n |-> 0, month |-> 0]]

\* No direct call of calculateLeaveDays.
NoCalc == [startDate |-> 0, endDate |-> 0, called |-> FALSE, diffDays |-> 0]

\* The run is one call at a time / the calls interleave.
SeqInit ==
  Init /\ serial = TRUE /\ calc = NoCalc /\ attendance = << >> /\ pre = Tables

ConcInit ==
  Init /\ serial = FALSE /\ calc = NoCalc /\ attendance = << >> /\ pre = Tables

\* In a serial run a call that starts (or whose answer is taken) records the
\* tables as they are; otherwise pre keeps the initial tables.
Remember(p) ==
  /\ pre' = IF serial /\ task[p].pc \in {"idle", "done"} THEN Tables ELSE pre
  /\ serial' = serial
  /\ calc' = calc

\* The call of p answers: a value returned or an HTTP response sent.
Respond(p, tag, o) ==
  task' = [task EXCEPT ![p] = [@ EXCEPT !.pc = "done", !.res = tag, !.out = o]]

Goto(p, label) ==
  task' = [task EXCEPT ![p].pc = label]

\* Variant: the exception swallowed, the route going on to its next call.
ThrowSwallowed(p, tag) ==
  /\ files' = files
  /\ Goto(p, "put_update")

\* An exception thrown inside the call of p.  A direct call of a service
\* function hands it to its caller; each route has a catch block.
Throw(p, tag) ==
  IF task[p].op = "post"
    THEN /\ files' = files \ {task[p].file}
         /\ Respond(p, "Failed", NoOut)
    ELSE /\ files' = files
         /\ Respond(p, IF task[p].op \in {"put", "delete", "getQuota", "convert",
                                          "remove", "employeeAlpha", "summary",
                                          "updateLeaveDays"}
                         THEN "Failed" ELSE tag, NoOut)

\* ------------------------------------------------------------------ history
\* A consume on behalf of leave request id raised the employee's counter by the
\* request's days (history only).  n counts these since the last restore or
\* monthly reset for the employee: 0, 1, or 2 for "more than once".
Charged(id, month) ==
  [charge EXCEPT ![id] = [n |-> IF @.n < 2 THEN @.n + 1 ELSE @.n,
                          month |-> month]]

\* restore or the monthly reset committed for employee e (history only)
Released(e) ==
  [i \in LeaveIds |->
     IF i \in DOMAIN leave /\ leave[i].emp = e
       THEN [charge[i] EXCEPT !.n = 0]
       ELSE charge[i]]

\* ------------------------------------------------- checkAndResetMonthlyQuota
\* Variants of the month test: never due, always due.
NeedsResetNever(storedMonth, currentMonth) == FALSE

NeedsResetAlways(storedMonth, currentMonth) == TRUE

NeedsReset(storedMonth, currentMonth) == storedMonth # currentMonth

\* Variants of the quota test, as a slip in the comparison would make it.
ExceedsQuotaLate(newUsedDays, quota) == newUsedDays > quota + 1

ExceedsQuotaEarly(newUsedDays, quota) == newUsedDays >= quota

ExceedsQuota(newUsedDays, quota) == newUsedDays > quota

\* Variants of the sufficiency test: one day too strict, one day too generous.
SufficientStrict(remaining, requestedDays) == remaining > requestedDays

SufficientLoose(remaining, requestedDays) == remaining + 1 >= requestedDays

Sufficient(remaining, requestedDays) == remaining >= requestedDays

\* Variant of the restore: the floor at 0 left out.
RestoredDaysUnfloored(used, days) == used - days

RestoredDays(used, days) == Max(0, used - days)

\* Variant of the month guard of restore: the guard left out.
SameMonthUnchecked(storedMonth, currentMonth) == TRUE

SameMonth(storedMonth, currentMonth) == storedMonth = currentMonth

\* What the caller of checkAndResetMonthlyQuota does with its result.
AfterCheckAndReset(p, info) ==
  CASE task[p].op = "rollover" ->
         /\ Respond(p, "ok", info)
         /\ UNCHANGED files
    [] task[p].op = "checkQuota" ->
         /\ Respond(p, "ok",
              [info EXCEPT !.sufficient = Sufficient(info.remaining, task[p].days),
                           !.month = getCurrentMonth])
         /\ UNCHANGED files
    [] task[p].op \in {"consume", "put"} ->
         /\ Goto(p, "upd_find")
         /\ UNCHANGED files
    [] task[p].op = "getQuota" ->
         /\ Goto(p, "gq_find")
         /\ UNCHANGED files
    [] task[p].op = "post" ->
         /\ IF Sufficient(info.remaining, task[p].days)
              THEN Goto(p, "post_create")
              ELSE Respond(p, "QuotaExceeded", info)
         /\ UNCHANGED files

RolloverCall(p, emps) ==
  /\ task[p].pc = "idle"
  /\ \E e \in emps :
       task' = [task EXCEPT ![p] =
                  [IdleTask EXCEPT !.pc = "car_find", !.op = "rollover",
                                   !.emp = e, !.cm = getCurrentMonth]]
  /\ UNCHANGED <<attendance, clock, employee, leave, nextId, files, nextFile, charge>>
  /\ Remember(p)

StartRollover(p) == RolloverCall(p, EmpArgs)

CheckQuotaCall(p, emps) ==
  /\ task[p].pc = "idle"
  /\ \E e \in emps, d \in DayArgs :
       task' = [task EXCEPT ![p] =
                  [IdleTask EXCEPT !.pc = "car_find", !.op = "checkQuota",
                                   !.emp = e, !.days = d, !.cm = getCurrentMonth]]
  /\ UNCHANGED <<attendance, clock, employee, leave, nextId, files, nextFile, charge>>
  /\ Remember(p)

StartCheckQuota(p) == CheckQuotaCall(p, EmpArgs)

CarFind(p) ==
  /\ task[p].pc = "car_find"
  /\ IF task[p].emp \notin DOMAIN employee
       THEN Throw(p, "NotFound")
       ELSE LET row == employee[task[p].emp] IN
            IF NeedsReset(row.month, task[p].cm)
              THEN /\ task' = [task EXCEPT ![p] =
                                 [@ EXCEPT !.pc = "car_update", !.quota = row.quota]]
                   /\ UNCHANGED files
              ELSE AfterCheckAndReset(p,
                     [NoOut EXCEPT !.quota = row.quota, !.used = row.used,
                                   !.remaining = row.quota - row.used])
  /\ UNCHANGED <<attendance, clock, employee, leave, nextId, nextFile, charge>>
  /\ Remember(p)

CarUpdate(p) ==
  /\ task[p].pc = "car_update"
  /\ employee' = [employee EXCEPT ![task[p].emp] =
                    [@ EXCEPT !.month = task[p].cm, !.used = 0]]
  /\ AfterCheckAndReset(p,
       [NoOut EXCEPT !.quota = task[p].quota, !.used = 0,
                     !.remaining = task[p].quota, !.wasReset = TRUE])
  /\ charge' = Released(task[p].emp)
  /\ UNCHANGED <<attendance, clock, leave, nextId, nextFile>>
  /\ Remember(p)

\* -------------------------------------------------- updateEmployeeLeaveQuota
\* Variant: the update without its where clause.
WhereEmployeeAny(employee_id, employeeId) == TRUE

\* where: { employee_id: employeeId }
WhereEmployee(employee_id, employeeId) == employee_id = employeeId

ConsumeCall(p, emps) ==
  /\ task[p].pc = "idle"
  /\ \E e \in emps, d \in DayArgs :
       task' = [task EXCEPT ![p] =
                  [IdleTask EXCEPT !.pc = "car_find", !.op = "consume",
                                   !.emp = e, !.days = d, !.cm = getCurrentMonth]]
  /\ UNCHANGED <<attendance, clock, employee, leave, nextId, files, nextFile, charge>>
  /\ Remember(p)

StartConsume(p) == ConsumeCall(p, EmpArgs)

UpdFind(p) ==
  /\ task[p].pc = "upd_find"
  /\ IF task[p].emp \notin DOMAIN employee
       THEN Throw(p, "NotFound")
       ELSE LET row == employee[task[p].emp]
                newUsedDays == row.used + task[p].days IN
            IF ExceedsQuota(newUsedDays, row.quota)
              THEN Throw(p, "QuotaExceeded")
              ELSE /\ task' = [task EXCEPT ![p] =
                                 [@ EXCEPT !.pc = "upd_write", !.newUsed = newUsedDays]]
                   /\ UNCHANGED files
  /\ UNCHANGED <<attendance, clock, employee, leave, nextId, nextFile, charge>>
  /\ Remember(p)

UpdWrite(p) ==
  /\ task[p].pc = "upd_write"
  /\ employee' = [e \in DOMAIN employee |->
                    IF WhereEmployee(e, task[p].emp)
                      THEN [employee[e] EXCEPT !.used = task[p].newUsed]
                      ELSE employee[e]]
  /\ IF task[p].op = "put"
       THEN /\ Goto(p, "put_update")
            /\ charge' = IF task[p].newUsed = employee[task[p].emp].used + task[p].days
                            THEN Charged(task[p].id, task[p].cm)
                            ELSE charge
       ELSE /\ Respond(p, "ok", NoOut)
            /\ UNCHANGED charge
  /\ UNCHANGED <<attendance, clock, leave, nextId, files, nextFile>>
  /\ Remember(p)

\* --------------------------------------------------------- restoreLeaveQuota
RestoreCall(p, emps) ==
  /\ task[p].pc = "idle"
  /\ \E e \in emps, d \in DayArgs :
       task' = [task EXCEPT ![p] =
                  [IdleTask EXCEPT !.pc = "res_find", !.op = "restore",
                                   !.emp = e, !.days = d]]
  /\ UNCHANGED <<attendance, clock, employee, leave, nextId, files, nextFile, charge>>
  /\ Remember(p)

StartRestore(p) == RestoreCall(p, EmpArgs)

ResFind(p) ==
  /\ task[p].pc = "res_find"
  /\ IF task[p].emp \notin DOMAIN employee
       THEN Throw(p, "NotFound")
       ELSE LET row == employee[task[p].emp] IN
            /\ IF SameMonth(row.month, getCurrentMonth)
                 THEN task' = [task EXCEPT ![p] =
                                 [@ EXCEPT !.pc = "res_write", !.cm = getCurrentMonth,
                                           !.newUsed = RestoredDays(row.used, task[p].days)]]
                 ELSE task' = [task EXCEPT ![p] =
                                 [@ EXCEPT !.pc = "done", !.cm = getCurrentMonth,
                                           !.res = "ok", !.out = NoOut]]
            /\ UNCHANGED files
  /\ UNCHANGED <<attendance, clock, employee, leave, nextId, nextFile, charge>>
  /\ Remember(p)

ResWrite(p) ==
  /\ task[p].pc = "res_write"
  /\ employee' = [employee EXCEPT ![task[p].emp].used = task[p].newUsed]
  /\ Respond(p, "ok", NoOut)
  /\ charge' = Released(task[p].emp)
  /\ UNCHANGED <<attendance, clock, leave, nextId, files, nextFile>>
  /\ Remember(p)

\* ----------------------------------------------- getApprovedLeaveDaysThisMonth
\* new Date(year, month, 0): the start of the last day of the month
LastDayStart(m) == m * MonthLen - DayLen

RECURSIVE SumTotalDays(_)
SumTotalDays(ids) ==
  IF ids = {} THEN 0
  ELSE LET i == CHOOSE x \in ids : TRUE
       IN leave[i].days + SumTotalDays(ids \ {i})

getApprovedLeaveDaysThisMonth(employeeId) ==
  LET currentMonth == getCurrentMonth
      startOfMonth == (currentMonth - 1) * MonthLen
      endOfMonth == LastDayStart(currentMonth)
      approvedLeaves ==
        { i \in DOMAIN leave :
            /\ leave[i].emp = employeeId
            /\ leave[i].status = "approved"
            /\ leave[i].kind = "Cuti"
            /\ leave[i].tanggal_mulai >= startOfMonth
            /\ leave[i].tanggal_mulai <= endOfMonth }
  IN SumTotalDays(approvedLeaves)

\* ------------------------------------------------------------- GET /quota
StartGetQuota(p) ==
  /\ task[p].pc = "idle"
  /\ \E e \in EmpArgs :
       task' = [task EXCEPT ![p] =
                  [IdleTask EXCEPT !.pc = "car_find", !.op = "getQuota",
                                   !.emp = e, !.cm = getCurrentMonth]]
  /\ UNCHANGED <<attendance, clock, employee, leave, nextId, files, nextFile, charge>>
  /\ Remember(p)

GqFind(p) ==
  /\ task[p].pc = "gq_find"
  /\ LET row == employee[task[p].emp] IN
       Respond(p, "ok",
         [NoOut EXCEPT !.quota = row.quota, !.used = row.used,
                       !.remaining = row.quota - row.used,
                       !.month = getCurrentMonth])
  /\ UNCHANGED <<attendance, clock, employee, leave, nextId, files, nextFile, charge>>
  /\ Remember(p)

\* ---------------------------------------------------------------- POST /
\* Variant: the validation of the sick letter left out.
SickWithoutLetterUnchecked(kind, file) == FALSE

SickWithoutLetter(kind, file) == kind = "Sakit" /\ file = NoFile

PostsInFlight ==
  Cardinality({q \in Procs : task[q].op = "post" /\ task[q].pc # "done"})

PostRequest(p, emps, kinds, dates) ==
  /\ task[p].pc = "idle"
  /\ nextId + PostsInFlight <= MaxLeave
  /\ \E e \in emps, kind \in kinds, tanggal_mulai \in dates,
        tanggal_selesai \in dates, attached \in BOOLEAN :
       /\ attached => nextFile <= MaxLeave
       /\ LET file == IF attached THEN nextFile ELSE NoFile
              totalDays == calculateLeaveDays(tanggal_mulai, tanggal_selesai)
              req == [IdleTask EXCEPT !.op = "post", !.emp = e, !.kind = kind,
                                      !.lmonth = LeaveMonth(tanggal_mulai),
                                      !.days = totalDays, !.file = file,
                                      !.startDate = tanggal_mulai,
                                      !.endDate = tanggal_selesai,
                                      !.cm = getCurrentMonth]
          IN /\ files' = IF attached THEN files \cup {file} ELSE files
             /\ nextFile' = IF attached THEN nextFile + 1 ELSE nextFile
             /\ task' = [task EXCEPT ![p] =
                  IF SickWithoutLetter(kind, file)
                    THEN [req EXCEPT !.pc = "done", !.res = "ValidationError"]
                    ELSE IF kind = "Cuti"
                           THEN [req EXCEPT !.pc = "car_find"]
                           ELSE [req EXCEPT !.pc = "post_create"]]
  /\ UNCHANGED <<attendance, clock, employee, leave, nextId, charge>>
  /\ Remember(p)

StartPost(p) == PostRequest(p, EmpArgs, Kinds, Instants)

PostCreate(p) ==
  /\ task[p].pc = "post_create"
  /\ IF task[p].emp \notin DOMAIN employee
       THEN /\ Throw(p, "Failed")
            /\ UNCHANGED <<leave, nextId>>
       ELSE /\ leave' = [i \in DOMAIN leave \cup {nextId} |->
                           IF i = nextId
                             THEN [emp |-> task[p].emp, kind |-> task[p].kind,
                                   status |-> "pending", days |-> task[p].days,
                                   lmonth |-> task[p].lmonth, file |-> task[p].file,
                                   tanggal_mulai |-> task[p].startDate,
                                   tanggal_selesai |-> task[p].endDate]
                             ELSE leave[i]]
            /\ nextId' = nextId + 1
            /\ task' = [task EXCEPT ![p] =
                          [@ EXCEPT !.pc = "done", !.res = "ok", !.id = nextId]]
            /\ UNCHANGED files
  /\ UNCHANGED <<attendance, clock, employee, nextFile, charge>>
  /\ Remember(p)

\* --------------------------------------------------------- PUT /:id/status
\* Variant: the kind of the request is not compared.
ConsumesOnApprovalAnyKind(status, previousStatus, kind, leaveMonth, currentMonth) ==
  /\ status = "approved"
  /\ previousStatus = "pending"
  /\ leaveMonth = currentMonth

\* Variant: the month of the request is not compared.
ConsumesOnApprovalAnyMonth(status, previousStatus, kind, leaveMonth, currentMonth) ==
  /\ status = "approved"
  /\ previousStatus = "pending"
  /\ kind = "Cuti"

\* Variant: the kind compared with a misspelt literal.
ConsumesOnApprovalMisspelt(status, previousStatus, kind, leaveMonth, currentMonth) ==
  /\ status = "approved"
  /\ previousStatus = "pending"
  /\ kind = "cuti"
  /\ leaveMonth = currentMonth

ConsumesOnApproval(status, previousStatus, kind, leaveMonth, currentMonth) ==
  /\ status = "approved"
  /\ previousStatus = "pending"
  /\ kind = "Cuti"
  /\ leaveMonth = currentMonth

PutRequest(p, statuses) ==
  /\ task[p].pc = "idle"
  /\ \E id \in LeaveIds, status \in statuses :
       task' = [task EXCEPT ![p] =
                  [IdleTask EXCEPT !.pc = "put_find", !.op = "put",
                                   !.id = id, !.status = status]]
  /\ UNCHANGED <<attendance, clock, employee, leave, nextId, files, nextFile, charge>>
  /\ Remember(p)

StartPut(p) == PutRequest(p, StatusArgs)

\* A PUT that approves.
StartApprove(p) == PutRequest(p, {"approved"})

PutFind(p) ==
  /\ task[p].pc = "put_find"
  /\ IF task[p].id \notin DOMAIN leave
       THEN Respond(p, "NotFound", NoOut)
       ELSE LET leaveRequest == leave[task[p].id] IN
            IF ConsumesOnApproval(task[p].status, leaveRequest.status,
                                  leaveRequest.kind, leaveRequest.lmonth,
                                  getCurrentMonth)
              THEN task' = [task EXCEPT ![p] =
                              [@ EXCEPT !.pc = "car_find", !.emp = leaveRequest.emp,
                                        !.days = leaveRequest.days,
                                        !.cm = getCurrentMonth]]
              ELSE task' = [task EXCEPT ![p] =
                              [@ EXCEPT !.pc = "put_update", !.cm = getCurrentMonth]]
  /\ UNCHANGED <<attendance, clock, employee, leave, nextId, files, nextFile, charge>>
  /\ Remember(p)

PutUpdate(p) ==
  /\ task[p].pc = "put_update"
  /\ IF task[p].id \notin DOMAIN leave
       THEN /\ Throw(p, "Failed")
            /\ UNCHANGED leave
       ELSE /\ leave' = [leave EXCEPT ![task[p].id].status = task[p].status]
            /\ Respond(p, "ok", NoOut)
            /\ UNCHANGED files
  /\ UNCHANGED <<attendance, clock, employee, nextId, nextFile, charge>>
  /\ Remember(p)

\* -------------------------------------------------------------- DELETE /:id
StartDelete(p) ==
  /\ task[p].pc = "idle"
  /\ \E id \in LeaveIds :
       task' = [task EXCEPT ![p] =
                  [IdleTask EXCEPT !.pc = "del_find", !.op = "delete", !.id = id]]
  /\ UNCHANGED <<attendance, clock, employee, leave, nextId, files, nextFile, charge>>
  /\ Remember(p)

DelFind(p) ==
  /\ task[p].pc = "del_find"
  /\ IF task[p].id \notin DOMAIN leave
       THEN /\ Respond(p, "NotFound", NoOut)
            /\ UNCHANGED files
       ELSE /\ files' = IF leave[task[p].id].file # NoFile
                          THEN files \ {leave[task[p].id].file}
                          ELSE files
            /\ Goto(p, "del_delete")
  /\ UNCHANGED <<attendance, clock, employee, leave, nextId, nextFile, charge>>
  /\ Remember(p)

DelDelete(p) ==
  /\ task[p].pc = "del_delete"
  /\ IF task[p].id \notin DOMAIN leave
       THEN /\ Throw(p, "Failed")
            /\ UNCHANGED leave
       ELSE /\ leave' = [i \in DOMAIN leave \ {task[p].id} |-> leave[i]]
            /\ Respond(p, "ok", NoOut)
            /\ UNCHANGED files
  /\ UNCHANGED <<attendance, clock, employee, nextId, nextFile, charge>>
  /\ Remember(p)

\* ------------------------------------------ PUT /convert/:attendance_id
\* Variant: every new_status accepted.
ValidNewStatusAny(new_status) == TRUE

ValidNewStatus(new_status) == new_status \in {"hadir", "izin", "sakit"}

\* Variant: the test of the record's status left out.
IsAlphaUnchecked(status) == TRUE

\* Variant: the record's status compared with a misspelt literal.
IsAlphaMisspelt(status) == status = "alpha"

IsAlpha(status) == status = "alpa"

StartConvert(p) ==
  /\ task[p].pc = "idle"
  /\ \E id \in AttIds \cup {NoSuchAtt}, new_status \in NewStatusArgs,
        keterangan \in {"none", "given"} :
       LET req == [IdleTask EXCEPT !.op = "convert", !.id = id,
                                   !.status = new_status,
                                   !.keterangan = keterangan]
       IN task' = [task EXCEPT ![p] =
                     IF ~ValidNewStatus(new_status)
                       THEN [req EXCEPT !.pc = "done", !.res = "ValidationError"]
                       ELSE [req EXCEPT !.pc = "cv_find"]]
  /\ UNCHANGED <<attendance, clock, employee, leave, nextId, files, nextFile, charge>>
  /\ Remember(p)

CvFind(p) ==
  /\ task[p].pc = "cv_find"
  /\ IF task[p].id \notin DOMAIN attendance
       THEN Respond(p, "NotFound", NoOut)
       ELSE LET record == attendance[task[p].id] IN
            IF ~IsAlpha(record.status)
              THEN Respond(p, "InvalidState", NoOut)
              ELSE task' = [task EXCEPT ![p] =
                              [@ EXCEPT !.pc = "cv_update", !.emp = record.emp,
                                        !.tanggal = record.tanggal]]
  /\ UNCHANGED <<attendance, clock, employee, leave, nextId, files, nextFile, charge>>
  /\ Remember(p)

CvUpdate(p) ==
  /\ task[p].pc = "cv_update"
  /\ IF task[p].id \notin DOMAIN attendance
       THEN /\ Throw(p, "Failed")
            /\ UNCHANGED attendance
       ELSE /\ attendance' =
                 [attendance EXCEPT ![task[p].id] =
                    [@ EXCEPT !.status = task[p].status,
                              !.keterangan = IF task[p].keterangan = "none"
                                               THEN "converted" ELSE "given"]]
            /\ Respond(p, "ok", NoOut)
            /\ UNCHANGED files
  /\ UNCHANGED <<clock, employee, leave, nextId, nextFile, charge>>
  /\ Remember(p)

\* ---------------------------------------- DELETE /remove/:attendance_id
StartRemove(p) ==
  /\ task[p].pc = "idle"
  /\ \E id \in AttIds \cup {NoSuchAtt} :
       task' = [task EXCEPT ![p] =
                  [IdleTask EXCEPT !.pc = "rm_find", !.op = "remove", !.id = id]]
  /\ UNCHANGED <<attendance, clock, employee, leave, nextId, files, nextFile, charge>>
  /\ Remember(p)

RmFind(p) ==
  /\ task[p].pc = "rm_find"
  /\ IF task[p].id \notin DOMAIN attendance
       THEN Respond(p, "NotFound", NoOut)
       ELSE LET record == attendance[task[p].id] IN
            IF ~IsAlpha(record.status)
              THEN Respond(p, "InvalidState", NoOut)
              ELSE task' = [task EXCEPT ![p] =
                              [@ EXCEPT !.pc = "rm_delete", !.emp = record.emp,
                                        !.tanggal = record.tanggal]]
  /\ UNCHANGED <<attendance, clock, employee, leave, nextId, files, nextFile, charge>>
  /\ Remember(p)

RmDelete(p) ==
  /\ task[p].pc = "rm_delete"
  /\ IF task[p].id \notin DOMAIN attendance
       THEN /\ Throw(p, "Failed")
            /\ UNCHANGED attendance
       ELSE /\ attendance' =
                 [i \in DOMAIN attendance \ {task[p].id} |-> attendance[i]]
            /\ Respond(p, "ok", NoOut)
            /\ UNCHANGED files
  /\ UNCHANGED <<clock, employee, leave, nextId, nextFile, charge>>
  /\ Remember(p)

\* ------------------------------- GET /summary, GET /employee/:employee_id
\* new Date(year, month - 1, 1) and new Date(year, month, 0, 23, 59, 59)
MonthStart(m) == (m - 1) * MonthLen

MonthEnd(m) == m * MonthLen - 1

\* Variant of the findMany filter: the status not filtered.
AlphaFilterAny(status) == TRUE

AlphaFilter(status) == status = "alpa"

\* findMany: status "alpa", tanggal gte startDate and lte endDate
AlphaRecords(emps, startDate, endDate) ==
  { i \in DOMAIN attendance :
      /\ attendance[i].emp \in emps
      /\ AlphaFilter(attendance[i].status)
      /\ attendance[i].tanggal >= startDate
      /\ attendance[i].tanggal <= endDate }

\* Variant: the deduction of a record not added.
AddAlphaUncharged(cur) == [cur EXCEPT !.alpha_count = @ + 1]

\* alpha_count++ and total_deduction += 100000
AddAlpha(cur) ==
  [alpha_count |-> cur.alpha_count + 1,
   total_deduction |-> cur.total_deduction + DeductionRate]

\* alphaRecords.forEach: group by employee
RECURSIVE GroupByEmployee(_, _)
GroupByEmployee(records, employeeSummary) ==
  IF records = {} THEN employeeSummary
  ELSE LET i == CHOOSE r \in records : TRUE
           empId == attendance[i].emp
           cur == IF empId \in DOMAIN employeeSummary
                    THEN employeeSummary[empId]
                    ELSE [alpha_count |-> 0, total_deduction |-> 0]
       IN GroupByEmployee(records \ {i},
            [e \in DOMAIN employeeSummary \cup {empId} |->
               IF e = empId THEN AddAlpha(cur) ELSE employeeSummary[e]])

StartSummary(p) ==
  /\ task[p].pc = "idle"
  /\ task' = [task EXCEPT ![p] =
                [IdleTask EXCEPT !.pc = "sm_find", !.op = "summary",
                                 !.cm = clock,
                                 !.startDate = MonthStart(clock),
                                 !.endDate = MonthEnd(clock)]]
  /\ UNCHANGED <<attendance, clock, employee, leave, nextId, files, nextFile, charge>>
  /\ Remember(p)

SmFind(p) ==
  /\ task[p].pc = "sm_find"
  /\ LET alphaRecords == AlphaRecords(AttEmps, task[p].startDate, task[p].endDate)
         summary == GroupByEmployee(alphaRecords, << >>)
     IN Respond(p, "ok",
          [total_alpha_records |-> Cardinality(alphaRecords),
           total_deduction |-> Cardinality(alphaRecords) * DeductionRate,
           employees_affected |-> Cardinality(DOMAIN summary),
           all_employees |-> summary])
  /\ UNCHANGED <<attendance, clock, employee, leave, nextId, files, nextFile, charge>>
  /\ Remember(p)

StartEmployeeAlpha(p) ==
  /\ task[p].pc = "idle"
  /\ \E e \in AttEmps :
       \/ \E month \in 1..MaxMonth :
            task' = [task EXCEPT ![p] =
                       [IdleTask EXCEPT !.pc = "ea_find", !.op = "employeeAlpha",
                                        !.emp = e,
                                        !.startDate = MonthStart(month),
                                        !.endDate = MonthEnd(month)]]
       \/ \E start_date \in Instants, end_date \in Instants :
            task' = [task EXCEPT ![p] =
                       [IdleTask EXCEPT !.pc = "ea_find", !.op = "employeeAlpha",
                                        !.emp = e,
                                        !.startDate = start_date,
                                        !.endDate = end_date]]
       \/ task' = [task EXCEPT ![p] =
                     [IdleTask EXCEPT !.pc = "ea_find", !.op = "employeeAlpha",
                                      !.emp = e,
                                      !.startDate = MonthStart(clock),
                                      !.endDate = MonthEnd(clock)]]
  /\ UNCHANGED <<attendance, clock, employee, leave, nextId, files, nextFile, charge>>
  /\ Remember(p)

EaFind(p) ==
  /\ task[p].pc = "ea_find"
  /\ LET alphaRecords == AlphaRecords({task[p].emp}, task[p].startDate, task[p].endDate)
         alphaCount == Cardinality(alphaRecords)
     IN Respond(p, "ok",
          [total_alpha_records |-> alphaCount,
           total_deduction |-> alphaCount * DeductionRate,
           employees_affected |-> IF alphaCount > 0 THEN 1 ELSE 0,
           all_employees |-> << >>])
  /\ UNCHANGED <<attendance, clock, employee, leave, nextId, files, nextFile, charge>>
  /\ Remember(p)

\* ------------------------------------------------------------- environment
\* The caller takes the answer; the slot is free for the next call.
\* ------------------------------------------- script updateLeaveDays
\* The ids of S in ascending order.
RECURSIVE IdsInOrder(_)
IdsInOrder(S) ==
  IF S = {} THEN << >>
  ELSE LET i == CHOOSE x \in S : \A y \in S : x <= y
       IN <<i>> \o IdsInOrder(S \ {i})

\* where: { OR: [{ total_days: 0 }, { total_days: null }] }
LacksTotalDays(total_days) == total_days = 0

\* quotaUpdates.find(...) then += or push
AddQuotaUpdate(quotaUpdates, employee_id, totalDays) ==
  IF \E k \in DOMAIN quotaUpdates : quotaUpdates[k].employee_id = employee_id
    THEN [k \in DOMAIN quotaUpdates |->
            IF quotaUpdates[k].employee_id = employee_id
              THEN [quotaUpdates[k] EXCEPT !.total_days = @ + totalDays]
              ELSE quotaUpdates[k]]
    ELSE Append(quotaUpdates,
                [employee_id |-> employee_id, total_days |-> totalDays])

\* Where the script goes on after a step.
ScriptPc(leaveRequests, quotaUpdates) ==
  IF leaveRequests # << >> THEN "us_update"
  ELSE IF quotaUpdates # << >> THEN "us_qfind"
  ELSE "done"

StartUpdateLeaveDays(p) ==
  /\ task[p].pc = "idle"
  /\ task' = [task EXCEPT ![p] =
                [IdleTask EXCEPT !.pc = "us_find", !.op = "updateLeaveDays"]]
  /\ UNCHANGED <<attendance, clock, employee, leave, nextId, files, nextFile, charge>>
  /\ Remember(p)

UsFind(p) ==
  /\ task[p].pc = "us_find"
  /\ LET ids == IdsInOrder({i \in DOMAIN leave : LacksTotalDays(leave[i].days)})
         leaveRequests ==
           [k \in DOMAIN ids |->
              [leave_id |-> ids[k],
               tanggal_mulai |-> leave[ids[k]].tanggal_mulai,
               tanggal_selesai |-> leave[ids[k]].tanggal_selesai,
               jenis_pengajuan |-> leave[ids[k]].kind,
               status |-> leave[ids[k]].status,
               employee_id |-> leave[ids[k]].emp]]
     IN task' = [task EXCEPT ![p] =
                   [@ EXCEPT !.leaveRequests = leaveRequests,
                             !.pc = ScriptPc(leaveRequests, << >>),
                             !.res = IF leaveRequests = << >> THEN "ok" ELSE @]]
  /\ UNCHANGED <<attendance, clock, employee, leave, nextId, files, nextFile, charge>>
  /\ Remember(p)

UsUpdate(p) ==
  /\ task[p].pc = "us_update"
  /\ LET r == Head(task[p].leaveRequests)
         totalDays == calculateLeaveDays(r.tanggal_mulai, r.tanggal_selesai)
         rest == Tail(task[p].leaveRequests)
         quotaUpdates ==
           IF r.status = "approved" /\ r.jenis_pengajuan = "Cuti"
             THEN AddQuotaUpdate(task[p].quotaUpdates, r.employee_id, totalDays)
             ELSE task[p].quotaUpdates
     IN IF r.leave_id \notin DOMAIN leave
          THEN /\ Throw(p, "Failed")
               /\ UNCHANGED leave
          ELSE /\ leave' = [leave EXCEPT ![r.leave_id].days = totalDays]
               /\ task' = [task EXCEPT ![p] =
                    [@ EXCEPT !.leaveRequests = rest,
                              !.quotaUpdates = quotaUpdates,
                              !.pc = ScriptPc(rest, quotaUpdates),
                              !.res = IF ScriptPc(rest, quotaUpdates) = "done"
                                        THEN "ok" ELSE @]]
               /\ UNCHANGED files
  /\ UNCHANGED <<attendance, clock, employee, nextId, nextFile, charge>>
  /\ Remember(p)

UsQuotaFind(p) ==
  /\ task[p].pc = "us_qfind"
  /\ LET u == Head(task[p].quotaUpdates)
         rest == Tail(task[p].quotaUpdates)
     IN IF u.employee_id \in DOMAIN employee
          THEN task' = [task EXCEPT ![p] =
                 [@ EXCEPT !.pc = "us_qupdate", !.emp = u.employee_id,
                           !.newUsed = employee[u.employee_id].used + u.total_days]]
          ELSE task' = [task EXCEPT ![p] =
                 [@ EXCEPT !.quotaUpdates = rest,
                           !.pc = ScriptPc(<< >>, rest),
                           !.res = IF rest = << >> THEN "ok" ELSE @]]
  /\ UNCHANGED <<attendance, clock, employee, leave, nextId, files, nextFile, charge>>
  /\ Remember(p)

UsQuotaUpdate(p) ==
  /\ task[p].pc = "us_qupdate"
  /\ LET rest == Tail(task[p].quotaUpdates)
     IN IF task[p].emp \notin DOMAIN employee
          THEN /\ Throw(p, "Failed")
               /\ UNCHANGED employee
          ELSE /\ employee' = [employee EXCEPT ![task[p].emp].used = task[p].newUsed]
               /\ task' = [task EXCEPT ![p] =
                    [@ EXCEPT !.quotaUpdates = rest,
                              !.pc = ScriptPc(<< >>, rest),
                              !.res = IF rest = << >> THEN "ok" ELSE @]]
               /\ UNCHANGED files
  /\ UNCHANGED <<attendance, clock, leave, nextId, nextFile, charge>>
  /\ Remember(p)

Finish(p) ==
  /\ task[p].pc = "done"
  /\ task' = [task EXCEPT ![p] = IdleTask]
  /\ UNCHANGED <<attendance, clock, employee, leave, nextId, files, nextFile, charge>>
  /\ Remember(p)

\* The calendar month changes.
Tick ==
  /\ clock < MaxMonth
  /\ clock' = clock + 1
  /\ UNCHANGED <<attendance, employee, leave, nextId, files, nextFile, task,
                 charge, pre, serial, calc>>

\* ------------------------------------------------------------ specifications
\* The whole program, one call at a time: the routes and the exported
\* service functions, each call running to its answer before the next
\* starts, the month changing at any step.
SeqNext ==
  \/ \E p \in {1} :
       \/ StartRollover(p)
       \/ StartCheckQuota(p)
       \/ StartConsume(p)
       \/ StartRestore(p)
       \/ StartGetQuota(p)
       \/ StartPost(p)
       \/ StartPut(p)
       \/ StartDelete(p)
       \/ CarFind(p)
       \/ CarUpdate(p)
       \/ UpdFind(p)
       \/ UpdWrite(p)
       \/ ResFind(p)
       \/ ResWrite(p)
       \/ GqFind(p)
       \/ PostCreate(p)
       \/ PutFind(p)
       \/ PutUpdate(p)
       \/ DelFind(p)
       \/ DelDelete(p)
       \/ Finish(p)
  \/ Tick

SeqSpec == SeqInit /\ [][SeqNext]_vars

\* checkAndResetMonthlyQuota, updateEmployeeLeaveQuota and restoreLeaveQuota
\* called concurrently for the employees of the table: the calls interleave at
\* their awaits.
ConcNext ==
  \/ \E p \in Procs :
       \/ RolloverCall(p, EmpIds)
       \/ ConsumeCall(p, EmpIds)
       \/ RestoreCall(p, EmpIds)
       \/ CarFind(p)
       \/ CarUpdate(p)
       \/ UpdFind(p)
       \/ UpdWrite(p)
       \/ ResFind(p)
       \/ ResWrite(p)
       \/ Finish(p)
  \/ Tick

ConcSpec == ConcInit /\ [][ConcNext]_vars

\* Every caller makes one call of updateEmployeeLeaveQuota, within one month.
ConsumeNext ==
  \E p \in Procs :
    \/ ConsumeCall(p, EmpIds)
    \/ CarFind(p)
    \/ CarUpdate(p)
    \/ UpdFind(p)
    \/ UpdWrite(p)

ConsumeSpec == ConcInit /\ [][ConsumeNext]_vars

\* One pending Cuti request, as POST / stored it in this or an earlier month
\* (its days were within the quota), and concurrent PUTs that approve it.
ApproveInit ==
  /\ clock = 1
  /\ employee \in [EmpIds -> EmployeeRows]
  /\ \E e \in EmpIds, tanggal_mulai \in Instants, tanggal_selesai \in Instants :
       /\ calculateLeaveDays(tanggal_mulai, tanggal_selesai) <= employee[e].quota
       /\ leave = [i \in {1} |->
                     [emp |-> e, kind |-> "Cuti", status |-> "pending",
                      days |-> calculateLeaveDays(tanggal_mulai, tanggal_selesai),
                      lmonth |-> LeaveMonth(tanggal_mulai), file |-> NoFile,
                      tanggal_mulai |-> tanggal_mulai,
                      tanggal_selesai |-> tanggal_selesai]]
  /\ nextId = 2
  /\ files = {}
  /\ nextFile = 1
  /\ task = [p \in Procs |-> IdleTask]
  /\ charge = [i \in LeaveIds |-> [n |-> 0, month |-> 0]]
  /\ attendance = << >>
  /\ pre = Tables
  /\ serial = FALSE
  /\ calc = NoCalc

ApproveNext ==
  \E p \in Procs :
    \/ StartApprove(p)
    \/ PutFind(p)
    \/ CarFind(p)
    \/ CarUpdate(p)
    \/ UpdFind(p)
    \/ UpdWrite(p)
    \/ PutUpdate(p)
    \/ Finish(p)

ApproveSpec == ApproveInit /\ [][ApproveNext]_vars

\* checkAndResetMonthlyQuota called, and when it has answered called again
\* for the same employee, the month changing at any step.
RolloverAgain(p, q) ==
  /\ task[q].pc = "done"
  /\ task[q].op = "rollover"
  /\ RolloverCall(p, {task[q].emp})

TwiceNext ==
  \/ RolloverCall(1, EmpIds)
  \/ RolloverAgain(2, 1)
  \/ \E p \in Procs :
       \/ CarFind(p)
       \/ CarUpdate(p)
  \/ Tick

TwiceSpec == SeqInit /\ [][TwiceNext]_vars

\* calculateLeaveDays called directly on two instants.
DaysInit ==
  /\ Init
  /\ serial = TRUE
  /\ attendance = << >>
  /\ pre = Tables
  /\ calc \in [startDate : CalcInstants, endDate : CalcInstants,
               called : {FALSE}, diffDays : {0}]

Calculate ==
  /\ ~calc.called
  /\ calc' = [calc EXCEPT !.called = TRUE,
                          !.diffDays = calculateLeaveDays(calc.startDate, calc.endDate)]
  /\ UNCHANGED <<attendance, clock, employee, leave, nextId, files, nextFile, task, charge,
                 pre, serial>>

DaysNext == Calculate

DaysSpec == DaysInit /\ [][DaysNext]_vars

\* The alpha routes, one request at a time, on an attendance table as the
\* attendance job and earlier requests left it; the employee table plays no
\* part.
AttendanceRows ==
  [emp : AttEmps, status : AttStatuses, tanggal : Instants,
   keterangan : {"system"}]

AlphaInit ==
  /\ Init
  /\ employee = [e \in EmpIds |-> [quota |-> 0, used |-> 0, month |-> 1]]
  /\ serial = TRUE
  /\ calc = NoCalc
  /\ attendance \in [AttIds -> AttendanceRows]
  /\ pre = Tables

AlphaNext ==
  \/ \E p \in {1} :
       \/ StartConvert(p)
       \/ CvFind(p)
       \/ CvUpdate(p)
       \/ StartRemove(p)
       \/ RmFind(p)
       \/ RmDelete(p)
       \/ StartSummary(p)
       \/ SmFind(p)
       \/ StartEmployeeAlpha(p)
       \/ EaFind(p)
       \/ Finish(p)
  \/ Tick

AlphaSpec == AlphaInit /\ [][AlphaNext]_vars

\* One convert or remove request, and when it has answered one summary or
\* one per-employee query, the month changing at any step.
SummaryAfter(p, q) ==
  /\ task[q].pc = "done"
  /\ StartSummary(p)

EmployeeAlphaAfter(p, q) ==
  /\ task[q].pc = "done"
  /\ StartEmployeeAlpha(p)

LaterNext ==
  \/ StartConvert(1)
  \/ StartRemove(1)
  \/ SummaryAfter(2, 1)
  \/ EmployeeAlphaAfter(2, 1)
  \/ \E p \in Procs :
       \/ CvFind(p)
       \/ CvUpdate(p)
       \/ RmFind(p)
       \/ RmDelete(p)
       \/ SmFind(p)
       \/ EaFind(p)
  \/ Tick

LaterSpec == AlphaInit /\ [][LaterNext]_vars

\* The leave routes and the script updateLeaveDays, one call at a time, on a
\* table that is empty or holds a request stored without its total_days.
LegacyRows ==
  { [emp |-> e, kind |-> kind, status |-> status, days |-> 0,
     lmonth |-> LeaveMonth(tanggal_mulai), file |-> NoFile,
     tanggal_mulai |-> tanggal_mulai, tanggal_selesai |-> tanggal_selesai] :
      e \in EmpIds, kind \in Kinds, status \in StatusArgs,
      tanggal_mulai \in Instants, tanggal_selesai \in Instants }

ScriptInit ==
  /\ clock = 1
  /\ employee \in [EmpIds -> EmployeeRows]
  /\ leave \in {<< >>} \cup {[i \in {1} |-> r] : r \in LegacyRows}
  /\ nextId = Cardinality(DOMAIN leave) + 1
  /\ files = {}
  /\ nextFile = 1
  /\ task = [p \in Procs |-> IdleTask]
  /\ charge = [i \in LeaveIds |-> [n |-> 0, month |-> 0]]
  /\ attendance = << >>
  /\ serial = TRUE
  /\ calc = NoCalc
  /\ pre = Tables

ScriptNext ==
  \/ \E p \in {1} :
       \/ StartUpdateLeaveDays(p)
       \/ UsFind(p)
       \/ UsUpdate(p)
       \/ UsQuotaFind(p)
       \/ UsQuotaUpdate(p)
       \/ StartPost(p)
       \/ CarFind(p)
       \/ CarUpdate(p)
       \/ PostCreate(p)
       \/ StartPut(p)
       \/ PutFind(p)
       \/ UpdFind(p)
       \/ UpdWrite(p)
       \/ PutUpdate(p)
       \/ StartDelete(p)
       \/ DelFind(p)
       \/ DelDelete(p)
       \/ Finish(p)
  \/ Tick

ScriptSpec == ScriptInit /\ [][ScriptNext]_vars

\* POST and PUT /:id/status, one call at a time, the PUT with any status in
\* its body.
AnyStatusArgs == StatusArgs \cup {"cancelled"}

StartPutAny(p) == PutRequest(p, AnyStatusArgs)

StatusNext ==
  \/ \E p \in {1} :
       \/ StartPost(p)
       \/ CarFind(p)
       \/ CarUpdate(p)
       \/ PostCreate(p)
       \/ StartPutAny(p)
       \/ PutFind(p)
       \/ UpdFind(p)
       \/ UpdWrite(p)
       \/ PutUpdate(p)
       \/ Finish(p)
  \/ Tick

StatusSpec == SeqInit /\ [][StatusNext]_vars

\* Two employees, within one month.  Every caller makes one call for the
\* employee of its own number, the calls interleaving: a service function, or
\* for caller 1 a leave route with a Cuti request.
EmpPair == {1, 2}

PairInit ==
  /\ clock = 1
  /\ employee \in [EmpPair -> EmployeeRows]
  /\ leave \in {<< >>} \cup
       {[i \in {1} |->
           [emp |-> 1, kind |-> "Cuti", status |-> status,
            days |-> calculateLeaveDays(0, 0), lmonth |-> LeaveMonth(0),
            file |-> NoFile, tanggal_mulai |-> 0, tanggal_selesai |-> 0]] :
          status \in {"pending", "approved"}}
  /\ nextId = Cardinality(DOMAIN leave) + 1
  /\ files = {}
  /\ nextFile = 1
  /\ task = [p \in Procs |-> IdleTask]
  /\ charge = [i \in LeaveIds |-> [n |-> 0, month |-> 0]]
  /\ attendance = << >>
  /\ serial = FALSE
  /\ calc = NoCalc
  /\ pre = Tables

PairNext ==
  \/ \E p \in Procs :
       \/ RolloverCall(p, {p})
       \/ CheckQuotaCall(p, {p})
       \/ ConsumeCall(p, {p})
       \/ RestoreCall(p, {p})
       \/ CarFind(p)
       \/ CarUpdate(p)
       \/ UpdFind(p)
       \/ UpdWrite(p)
       \/ ResFind(p)
       \/ ResWrite(p)
  \/ \E p \in {1} :
       \/ PostRequest(p, {p}, {"Cuti"}, {0})
       \/ PostCreate(p)
       \/ StartPut(p)
       \/ PutFind(p)
       \/ PutUpdate(p)
       \/ StartDelete(p)
       \/ DelFind(p)
       \/ DelDelete(p)

PairSpec == PairInit /\ [][PairNext]_vars

\* Days were consumed in month 1, the month changes, and only then is
\* restoreLeaveQuota called for them, while the new month's rollover and
\* consumption go on; the calls interleave.
ClosedInit ==
  /\ Init
  /\ \A e \in EmpIds : employee[e].month = clock /\ employee[e].used >= 1
  /\ serial = FALSE
  /\ calc = NoCalc
  /\ attendance = << >>
  /\ pre = Tables

\* restoreLeaveQuota called after the month of the consumption has closed.
RestoreClosed(p) ==
  /\ clock > 1
  /\ RestoreCall(p, EmpIds)

ClosedNext ==
  \/ \E p \in Procs :
       \/ RolloverCall(p, EmpIds)
       \/ ConsumeCall(p, EmpIds)
       \/ RestoreClosed(p)
       \/ CarFind(p)
       \/ CarUpdate(p)
       \/ UpdFind(p)
       \/ UpdWrite(p)
       \/ ResFind(p)
       \/ ResWrite(p)
       \/ Finish(p)
  \/ Tick

ClosedSpec == ClosedInit /\ [][ClosedNext]_vars

\* The leave routes within one calendar month, one call at a time, from an
\* employee with used = 0 and no requests.
MonthInit ==
  /\ Init
  /\ \A e \in EmpIds : employee[e].used = 0
  /\ serial = TRUE
  /\ calc = NoCalc
  /\ attendance = << >>
  /\ pre = Tables

MonthNext ==
  \E p \in {1} :
    \/ StartPost(p)
    \/ StartPut(p)
    \/ StartDelete(p)
    \/ CarFind(p)
    \/ CarUpdate(p)
    \/ PostCreate(p)
    \/ PutFind(p)
    \/ UpdFind(p)
    \/ UpdWrite(p)
    \/ PutUpdate(p)
    \/ DelFind(p)
    \/ DelDelete(p)
    \/ Finish(p)

MonthSpec == MonthInit /\ [][MonthNext]_vars

\* One caller calls checkAndResetMonthlyQuota and another
\* updateEmployeeLeaveQuota, concurrently, within one month.
RaceNext ==
  \/ RolloverCall(1, EmpIds)
  \/ ConsumeCall(2, EmpIds)
  \/ \E p \in Procs :
       \/ CarFind(p)
       \/ CarUpdate(p)
       \/ UpdFind(p)
       \/ UpdWrite(p)

RaceSpec == ConcInit /\ [][RaceNext]_vars

\* ==================================================================== claims
Answered(p, op) == task[p].pc = "done" /\ task[p].op = op

\* The balance of the month `month` that the row stands for: the stored
\* counter when the row is of that month, 0 when the rollover is still due.
EffectiveUsed(row, month) == IF row.month = month THEN row.used ELSE 0

RECURSIVE SumDays(_)
SumDays(S) ==
  IF S = {} THEN 0
  ELSE LET p == CHOOSE q \in S : TRUE IN task[p].days + SumDays(S \ {p})

\* C1: in every state the stored rows have 0 <= used <= quota, whatever
\* rollover, checkQuota, consume and restore calls ran and however they
\* interleaved.
C1_UsedWithinQuota ==
  \A e \in DOMAIN employee :
    /\ 0 <= employee[e].used
    /\ employee[e].used <= employee[e].quota

C1_Witness ==
  \E p \in Procs, q \in Procs :
    /\ Answered(p, "consume") /\ task[p].res = "ok" /\ task[p].days > 0
    /\ Answered(q, "restore") /\ task[q].res = "ok"
    /\ employee[task[p].emp].used = employee[task[p].emp].quota
    /\ clock > 1

\* C2: when every caller has made one consume call for the employee within one
\* month and all have answered, used = the initial value + the days of the
\* calls that succeeded, and used <= quota.
C2_NoLostIncrement ==
  \A e \in EmpIds :
    (/\ \A p \in Procs : Answered(p, "consume") /\ task[p].emp = e
     /\ pre.employee[e].month = clock)
    => /\ employee[e].used =
            pre.employee[e].used + SumDays({p \in Procs : task[p].res = "ok"})
       /\ employee[e].used <= employee[e].quota

\* C3: a transition on a request whose stored status is not pending does not
\* succeed and leaves the stored status as it was.
C3_TransitionOnlyFromPending ==
  \A p \in Procs :
    (/\ Answered(p, "put")
     /\ task[p].id \in DOMAIN pre.leave
     /\ pre.leave[task[p].id].status # "pending")
    => /\ task[p].res # "ok"
       /\ leave[task[p].id].status = pre.leave[task[p].id].status

\* The request of a PUT that approves a pending Cuti request whose start month
\* is the month the handler runs in.
ApprovesInMonth(p) ==
  /\ Answered(p, "put")
  /\ task[p].status = "approved"
  /\ task[p].id \in DOMAIN pre.leave
  /\ pre.leave[task[p].id].status = "pending"
  /\ pre.leave[task[p].id].kind = "Cuti"
  /\ pre.leave[task[p].id].lmonth = task[p].cm

\* C4 as stated: such an approval, with stored used + d <= quota, leaves
\* used = stored used + d and the request approved.
C4_ApprovalAddsToStoredUsed ==
  \A p \in Procs :
    ApprovesInMonth(p) =>
      LET r == pre.leave[task[p].id]
          row == pre.employee[r.emp] IN
      row.used + r.days <= row.quota
        => /\ task[p].res = "ok"
           /\ employee[r.emp].used = row.used + r.days
           /\ leave[task[p].id].status = "approved"

\* C4 amended: with used the balance after the implicit rollover (0 when the
\* stored month is not the current month), used + d <= quota makes the
\* approval succeed, leaves used = that balance + d and the request approved.
C4_ApprovalAddsToBalance ==
  \A p \in Procs :
    ApprovesInMonth(p) =>
      LET r == pre.leave[task[p].id]
          row == pre.employee[r.emp]
          used == EffectiveUsed(row, task[p].cm) IN
      used + r.days <= row.quota
        => /\ task[p].res = "ok"
           /\ employee[r.emp].used = used + r.days
           /\ employee[r.emp].month = task[p].cm
           /\ leave[task[p].id].status = "approved"

C4_Witness ==
  \E p \in Procs :
    /\ ApprovesInMonth(p)
    /\ task[p].res = "ok"
    /\ pre.employee[task[p].emp].month = task[p].cm
    /\ pre.employee[task[p].emp].used > 0
    /\ employee[task[p].emp].used = pre.employee[task[p].emp].used + task[p].days

\* C5: rejecting a Cuti request that is approved and whose days were consumed
\* in the current month gives the days back: used = max(0, used - d).
C5_RejectionRestores ==
  \A p \in Procs :
    (/\ Answered(p, "put")
     /\ task[p].status = "rejected"
     /\ task[p].res = "ok"
     /\ task[p].id \in DOMAIN pre.leave
     /\ pre.leave[task[p].id].status = "approved"
     /\ pre.leave[task[p].id].kind = "Cuti"
     /\ charge[task[p].id].n >= 1
     /\ charge[task[p].id].month = task[p].cm
     /\ pre.employee[pre.leave[task[p].id].emp].month = task[p].cm)
    => LET r == pre.leave[task[p].id] IN
       employee[r.emp].used = Max(0, pre.employee[r.emp].used - r.days)

\* C6: deleting a Cuti request that is approved and whose days were consumed
\* in the current month gives the days back: used = max(0, used - d).
C6_DeleteRestores ==
  \A p \in Procs :
    (/\ Answered(p, "delete")
     /\ task[p].res = "ok"
     /\ task[p].id \in DOMAIN pre.leave
     /\ pre.leave[task[p].id].status = "approved"
     /\ pre.leave[task[p].id].kind = "Cuti"
     /\ charge[task[p].id].n >= 1
     /\ charge[task[p].id].month = clock
     /\ pre.employee[pre.leave[task[p].id].emp].month = clock)
    => LET r == pre.leave[task[p].id] IN
       employee[r.emp].used = Max(0, pre.employee[r.emp].used - r.days)

\* C7: for no request are its days added to the employee's used counter more
\* than once without a restore (or a monthly reset) for the employee in between.
C7_ConsumedAtMostOnce ==
  \A i \in LeaveIds : charge[i].n <= 1

\* C8: a POST of kind Cuti whose totalDays exceed the remaining allowance
\* (after the implicit rollover) answers QuotaExceeded with that remaining
\* figure, and the leave table is as before.
C8_CreateOverQuotaRejected ==
  \A p \in Procs :
    (/\ Answered(p, "post")
     /\ task[p].kind = "Cuti"
     /\ task[p].emp \in DOMAIN pre.employee)
    => LET row == pre.employee[task[p].emp]
           remaining == row.quota - EffectiveUsed(row, task[p].cm) IN
       task[p].days > remaining
         => /\ task[p].res = "QuotaExceeded"
            /\ task[p].out.remaining = remaining
            /\ leave = pre.leave

C8_Witness ==
  \E p \in Procs :
    /\ Answered(p, "post")
    /\ task[p].kind = "Cuti"
    /\ task[p].res = "QuotaExceeded"
    /\ task[p].out.remaining = 1
    /\ task[p].days = 2

\* C9: a POST of kind Sakit without an attachment answers ValidationError;
\* the leave table and the employee table are as before.
C9_SickWithoutLetterRejected ==
  \A p \in Procs :
    (/\ Answered(p, "post")
     /\ task[p].kind = "Sakit"
     /\ task[p].file = NoFile)
    => /\ task[p].res = "ValidationError"
       /\ leave = pre.leave
       /\ employee = pre.employee

C9_Witness ==
  \E p \in Procs :
    /\ Answered(p, "post")
    /\ task[p].kind = "Sakit"
    /\ task[p].file = NoFile
    /\ task[p].res = "ValidationError"
    /\ task[p].emp \in DOMAIN employee
    /\ employee[task[p].emp].month # task[p].cm

\* C10: a consume call for an existing employee, with used the balance after
\* the implicit rollover: if used + days > quota it fails with QuotaExceeded
\* and the stored counter is that balance; otherwise it succeeds and the
\* stored counter is used + days.
C10_ConsumeBoundary ==
  \A p \in Procs :
    (Answered(p, "consume") /\ task[p].emp \in DOMAIN pre.employee)
    => LET row == pre.employee[task[p].emp]
           used == EffectiveUsed(row, task[p].cm) IN
       IF used + task[p].days > row.quota
         THEN /\ task[p].res = "QuotaExceeded"
              /\ employee[task[p].emp].used = used
         ELSE /\ task[p].res = "ok"
              /\ employee[task[p].emp].used = used + task[p].days

C10_Witness ==
  \E p \in Procs :
    /\ Answered(p, "consume")
    /\ task[p].res = "QuotaExceeded"
    /\ task[p].days = 1
    /\ pre.employee[task[p].emp].month = task[p].cm
    /\ employee[task[p].emp].used = employee[task[p].emp].quota
    /\ employee[task[p].emp].quota > 0

\* C11: a rollover call for an existing employee whose stored month is not the
\* month label the call computed returns wasReset = TRUE, used = 0,
\* remaining = quota, and leaves the row with that label, used = 0 and the
\* quota as it was; and every step that changes the stored month of a row
\* sets its used to 0 and keeps its quota in that same step.
C11_RolloverResets ==
  /\ [](\A p \in Procs :
          (/\ Answered(p, "rollover")
           /\ task[p].emp \in DOMAIN pre.employee
           /\ pre.employee[task[p].emp].month # task[p].cm)
          => /\ task[p].res = "ok"
             /\ task[p].out.wasReset
             /\ task[p].out.used = 0
             /\ task[p].out.remaining = pre.employee[task[p].emp].quota
             /\ task[p].out.quota = pre.employee[task[p].emp].quota
             /\ employee[task[p].emp] =
                  [quota |-> pre.employee[task[p].emp].quota, used |-> 0,
                   month |-> task[p].cm])
  /\ [][\A e \in DOMAIN employee :
          employee'[e].month # employee[e].month
            => /\ employee'[e].used = 0
               /\ employee'[e].quota = employee[e].quota]_vars

C11_Witness ==
  \E p \in Procs :
    /\ Answered(p, "rollover")
    /\ task[p].out.wasReset
    /\ pre.employee[task[p].emp].used > 0
    /\ pre.employee[task[p].emp].month # task[p].cm
    /\ employee[task[p].emp].used = 0
    /\ employee[task[p].emp].month = task[p].cm
    /\ task[p].cm > 1

\* C12: a second rollover call for the same employee, made after the first has
\* answered and computing the same month label as the first, returns
\* wasReset = FALSE and leaves the row exactly as the first call left it.
C12_RolloverIdempotent ==
  (/\ Answered(1, "rollover") /\ task[1].res = "ok"
   /\ Answered(2, "rollover")
   /\ task[2].emp = task[1].emp
   /\ task[2].cm = task[1].cm)
  => /\ task[2].res = "ok"
     /\ ~task[2].out.wasReset
     /\ employee[task[2].emp] = pre.employee[task[2].emp]
     /\ task[2].out.used = pre.employee[task[2].emp].used
     /\ task[2].out.remaining =
          pre.employee[task[2].emp].quota - pre.employee[task[2].emp].used

C12_Witness ==
  /\ Answered(1, "rollover") /\ task[1].out.wasReset
  /\ Answered(2, "rollover") /\ ~task[2].out.wasReset
  /\ task[2].cm = task[1].cm
  /\ task[2].cm > 1
  /\ employee[task[2].emp].quota > 0

\* C13: a restore call for an existing employee whose stored month is not the
\* clock's month label when the call compares them answers without an error
\* and leaves the row (used, month, quota) as it was.
C13_RestoreOtherMonthNoOp ==
  \A p \in Procs :
    (/\ Answered(p, "restore")
     /\ task[p].emp \in DOMAIN pre.employee
     /\ pre.employee[task[p].emp].month # task[p].cm)
    => /\ task[p].res = "ok"
       /\ employee[task[p].emp] = pre.employee[task[p].emp]

C13_Witness ==
  \E p \in Procs :
    /\ Answered(p, "restore")
    /\ task[p].res = "ok"
    /\ task[p].days > 0
    /\ pre.employee[task[p].emp].month # task[p].cm
    /\ pre.employee[task[p].emp].month >= 1
    /\ employee[task[p].emp].used > 0

\* C14: a restore call for an existing employee whose stored month is the
\* clock's month label when the call compares them leaves
\* used = max(0, used - days), never negative, and month and quota as they were.
C14_RestoreFloorsAtZero ==
  \A p \in Procs :
    (/\ Answered(p, "restore")
     /\ task[p].emp \in DOMAIN pre.employee
     /\ pre.employee[task[p].emp].month = task[p].cm)
    => LET row == pre.employee[task[p].emp] IN
       /\ task[p].res = "ok"
       /\ employee[task[p].emp].used >= 0
       /\ employee[task[p].emp] =
            [row EXCEPT !.used = IF row.used >= task[p].days
                                   THEN row.used - task[p].days ELSE 0]

C14_Witness ==
  \E p \in Procs :
    /\ Answered(p, "restore")
    /\ task[p].res = "ok"
    /\ pre.employee[task[p].emp].month = task[p].cm
    /\ pre.employee[task[p].emp].used > 0
    /\ task[p].days > pre.employee[task[p].emp].used
    /\ employee[task[p].emp].used = 0

\* C15: a checkQuota call for an existing employee returns remaining =
\* quota - used of the current month (used after the implicit rollover) and
\* sufficient exactly when remaining >= requestedDays; the stored used is that
\* balance, and when the stored month already is the current month the row is
\* unchanged.
C15_CheckQuotaReports ==
  \A p \in Procs :
    (Answered(p, "checkQuota") /\ task[p].emp \in DOMAIN pre.employee)
    => LET row == pre.employee[task[p].emp]
           used == EffectiveUsed(row, task[p].cm) IN
       /\ task[p].res = "ok"
       /\ task[p].out.quota = row.quota
       /\ task[p].out.used = used
       /\ task[p].out.remaining = row.quota - used
       /\ task[p].out.sufficient = (row.quota - used >= task[p].days)
       /\ employee[task[p].emp].used = used
       /\ employee[task[p].emp].quota = row.quota
       /\ row.month = task[p].cm => employee[task[p].emp] = row

C15_Witness ==
  \E p \in Procs :
    /\ Answered(p, "checkQuota")
    /\ task[p].res = "ok"
    /\ pre.employee[task[p].emp].month = task[p].cm
    /\ pre.employee[task[p].emp].used > 0
    /\ task[p].out.remaining = 1
    /\ task[p].days = 2
    /\ ~task[p].out.sufficient

\* C16: calculateLeaveDays(a, b) is what calculateLeaveDays(b, a) is, is
\* ceil(|b - a| / one day) + 1, is at least 1, and is 1 when a = b.
C16_DayCountSymmetric ==
  calc.called =>
    LET a == calc.startDate
        b == calc.endDate
        dist == IF b >= a THEN b - a ELSE a - b
        \* the least n with n * DayLen >= dist
        ceil == CHOOSE n \in 0..(dist + 1) :
                  /\ n * DayLen >= dist
                  /\ \A k \in 0..(dist + 1) : k * DayLen >= dist => n <= k
    IN /\ calc.diffDays = calculateLeaveDays(b, a)
       /\ calc.diffDays = ceil + 1
       /\ calc.diffDays >= 1
       /\ a = b => calc.diffDays = 1

C16_Witness ==
  /\ calc.called
  /\ calc.startDate > calc.endDate
  /\ (calc.startDate - calc.endDate) % DayLen # 0
  /\ calc.diffDays = 3

\* C17 as stated: a convert on a stored record succeeds only if the record's
\* status is alpa; on a record of any other status it answers InvalidState and
\* the record is as it was.
C17_ConvertOnlyAlpha ==
  \A p \in Procs :
    (Answered(p, "convert") /\ task[p].id \in DOMAIN pre.attendance)
    => LET record == pre.attendance[task[p].id] IN
       /\ task[p].res = "ok" => record.status = "alpa"
       /\ record.status # "alpa"
            => /\ task[p].res = "InvalidState"
               /\ attendance[task[p].id] = record

\* C17 amended: a convert on a stored record succeeds only if the record's
\* status is alpa; on a record of any other status it fails and the record is
\* as it was, with InvalidState when new_status is one of hadir, izin, sakit
\* and with ValidationError otherwise.
C17_ConvertOnlyAlphaValidated ==
  \A p \in Procs :
    (Answered(p, "convert") /\ task[p].id \in DOMAIN pre.attendance)
    => LET record == pre.attendance[task[p].id] IN
       /\ task[p].res = "ok" => record.status = "alpa"
       /\ record.status # "alpa"
            => /\ task[p].res = IF task[p].status \in {"hadir", "izin", "sakit"}
                                  THEN "InvalidState" ELSE "ValidationError"
               /\ attendance[task[p].id] = record
               /\ attendance = pre.attendance

C17_Witness ==
  \E p \in Procs :
    /\ Answered(p, "convert")
    /\ task[p].res = "InvalidState"
    /\ task[p].keterangan = "given"
    /\ task[p].id \in DOMAIN attendance
    /\ attendance[task[p].id].status = "sakit"
    /\ attendance[task[p].id].keterangan = "converted"

\* C18: a convert whose new_status is not one of hadir, izin, sakit (alpa and
\* a missing value included) answers ValidationError and leaves the attendance
\* table as it was; and no step of the program changes the status of a stored
\* record to anything but hadir, izin or sakit.
C18_ConvertValidatesStatus ==
  /\ [](\A p \in Procs :
          (Answered(p, "convert") /\ task[p].status \notin {"hadir", "izin", "sakit"})
          => /\ task[p].res = "ValidationError"
             /\ attendance = pre.attendance)
  /\ [][\A i \in DOMAIN attendance \cap DOMAIN attendance' :
          attendance'[i].status # attendance[i].status
            => attendance'[i].status \in {"hadir", "izin", "sakit"}]_vars

C18_Witness ==
  \E p \in Procs :
    /\ Answered(p, "convert")
    /\ task[p].status = "alpa"
    /\ task[p].res = "ValidationError"
    /\ task[p].id \in DOMAIN attendance
    /\ attendance[task[p].id].status = "alpa"

\* C19: a remove on a stored record deletes it (and nothing else) when its
\* status is alpa; on a record of any other status it answers InvalidState and
\* the attendance table is as it was.
C19_RemoveOnlyAlpha ==
  \A p \in Procs :
    (Answered(p, "remove") /\ task[p].id \in DOMAIN pre.attendance)
    => IF pre.attendance[task[p].id].status = "alpa"
         THEN /\ task[p].res = "ok"
              /\ DOMAIN attendance = DOMAIN pre.attendance \ {task[p].id}
              /\ \A i \in DOMAIN attendance : attendance[i] = pre.attendance[i]
         ELSE /\ task[p].res = "InvalidState"
              /\ attendance = pre.attendance

C19_Witness ==
  \E p \in Procs :
    /\ Answered(p, "remove")
    /\ task[p].res = "InvalidState"
    /\ task[p].id \in DOMAIN attendance
    /\ attendance[task[p].id].status = "hadir"
    /\ \E i \in DOMAIN attendance : attendance[i].status = "alpa"

\* C20: after a convert or remove of an alpa record has succeeded, a summary
\* or per-employee query whose date range contains the record's date (and, for
\* the per-employee query, whose employee is the record's) reports one alpha
\* fewer, and a total deduction lower by one DeductionRate, than it would for
\* the same table with that record still stored as alpa.
C20_ReclassifiedNotCounted ==
  (/\ task[1].pc = "done" /\ task[1].op \in {"convert", "remove"}
   /\ task[1].res = "ok"
   /\ task[2].pc = "done" /\ task[2].op \in {"summary", "employeeAlpha"}
   /\ task[1].tanggal >= task[2].startDate
   /\ task[1].tanggal <= task[2].endDate
   /\ task[2].op = "employeeAlpha" => task[2].emp = task[1].emp)
  => LET others == { i \in DOMAIN pre.attendance \ {task[1].id} :
                       /\ pre.attendance[i].status = "alpa"
                       /\ pre.attendance[i].tanggal >= task[2].startDate
                       /\ pre.attendance[i].tanggal <= task[2].endDate
                       /\ task[2].op = "employeeAlpha"
                            => pre.attendance[i].emp = task[2].emp }
         stillAlpa == Cardinality(others) + 1
     IN /\ task[2].res = "ok"
        /\ task[2].out.total_alpha_records = stillAlpa - 1
        /\ task[2].out.total_deduction =
             stillAlpa * DeductionRate - DeductionRate

C20_Witness ==
  /\ task[1].pc = "done" /\ task[1].op = "convert" /\ task[1].res = "ok"
  /\ task[1].status = "hadir"
  /\ task[2].pc = "done" /\ task[2].op = "summary"
  /\ task[1].tanggal >= task[2].startDate
  /\ task[1].tanggal <= task[2].endDate
  /\ task[2].cm > 1
  /\ task[2].out.total_alpha_records = 1
  /\ task[2].out.total_deduction = DeductionRate

\* The alpha records of the table the query found, in the range of the query
\* of p and of the employees emps.
AlphaInRange(p, emps) ==
  { i \in DOMAIN pre.attendance :
      /\ pre.attendance[i].status = "alpa"
      /\ pre.attendance[i].emp \in emps
      /\ pre.attendance[i].tanggal >= task[p].startDate
      /\ pre.attendance[i].tanggal <= task[p].endDate }

RECURSIVE SumCounts(_, _)
SumCounts(f, S) ==
  IF S = {} THEN 0
  ELSE LET e == CHOOSE x \in S : TRUE IN f[e].alpha_count + SumCounts(f, S \ {e})

\* C21: the per-employee query and the summary report the number of alpa
\* records with date in [start, end] and that number times DeductionRate; in
\* the summary every employee with such a record has an entry whose
\* alpha_count is the number of the employee's records and whose
\* total_deduction is alpha_count times DeductionRate, and the alpha_counts
\* add up to the overall count.
C21_DeductionDerived ==
  \A p \in Procs :
    /\ Answered(p, "employeeAlpha")
         => LET n == Cardinality(AlphaInRange(p, {task[p].emp})) IN
            /\ task[p].res = "ok"
            /\ task[p].out.total_alpha_records = n
            /\ task[p].out.total_deduction = n * DeductionRate
    /\ Answered(p, "summary")
         => LET n == Cardinality(AlphaInRange(p, AttEmps))
                all == task[p].out.all_employees IN
            /\ task[p].res = "ok"
            /\ task[p].startDate = (task[p].cm - 1) * MonthLen
            /\ task[p].endDate = task[p].cm * MonthLen - 1
            /\ task[p].out.total_alpha_records = n
            /\ task[p].out.total_deduction = n * DeductionRate
            /\ DOMAIN all = { e \in AttEmps : AlphaInRange(p, {e}) # {} }
            /\ task[p].out.employees_affected = Cardinality(DOMAIN all)
            /\ \A e \in DOMAIN all :
                 /\ all[e].alpha_count = Cardinality(AlphaInRange(p, {e}))
                 /\ all[e].total_deduction = all[e].alpha_count * DeductionRate
            /\ SumCounts(all, DOMAIN all) = n

C21_Witness ==
  \E p \in Procs :
    /\ Answered(p, "summary")
    /\ task[p].cm > 1
    /\ task[p].out.total_alpha_records = 2
    /\ task[p].out.employees_affected = 1
    /\ \E e \in DOMAIN task[p].out.all_employees :
         task[p].out.all_employees[e].total_deduction = 2 * DeductionRate

\* C22: when a POST for which an attachment was staged answers with a failure,
\* the attachment is no longer in the file store.
C22_NoOrphanedAttachment ==
  \A p \in Procs :
    (/\ Answered(p, "post")
     /\ task[p].res # "ok"
     /\ task[p].file # NoFile)
    => task[p].file \notin files

\* C23: at the step at which a checkQuota call, a consume call or a quota
\* display answers successfully, the employee's stored month is the month the
\* clock is in, and the month label the answer carries is the stored month.
C23_NoStaleMonth ==
  [][\A p \in Procs :
       (/\ task[p].pc # "done"
        /\ task'[p].pc = "done"
        /\ task'[p].op \in {"checkQuota", "consume", "getQuota"}
        /\ task'[p].res = "ok")
       => /\ employee'[task'[p].emp].month = clock'
          /\ task'[p].op \in {"checkQuota", "getQuota"}
               => task'[p].out.month = employee'[task'[p].emp].month]_vars

\* C24: no step lowers the stored month of an employee.
C24_MonthNeverDecreases ==
  [][\A e \in DOMAIN employee :
       employee'[e].month >= employee[e].month]_vars

\* C25: when a rollover call and a consume call for the same employee have run
\* concurrently within one month and the consume reported success, the stored
\* counter is the month's balance before the calls plus the consume's days.
C25_ConsumeNotErased ==
  (/\ Answered(1, "rollover")
   /\ Answered(2, "consume")
   /\ task[2].res = "ok"
   /\ task[2].emp = task[1].emp)
  => employee[task[2].emp].used =
       EffectiveUsed(pre.employee[task[2].emp], clock) + task[2].days

\* A finished PUT that approved a pending Cuti request whose start month is
\* not the month the handler read.
ApprovesOtherMonth(p) ==
  /\ Answered(p, "put")
  /\ task[p].status = "approved"
  /\ task[p].id \in DOMAIN pre.leave
  /\ pre.leave[task[p].id].status = "pending"
  /\ pre.leave[task[p].id].kind = "Cuti"
  /\ pre.leave[task[p].id].lmonth # task[p].cm

\* C26: approving a pending Cuti request whose start month differs from the
\* current month leaves every employee row (quota, used, month) as it was and
\* still stores the status approved.
C26_OtherMonthApprovalConsumesNothing ==
  \A p \in Procs :
    ApprovesOtherMonth(p) =>
      /\ task[p].res = "ok"
      /\ employee = pre.employee
      /\ leave[task[p].id].status = "approved"

C26_Witness ==
  \E p \in Procs :
    /\ ApprovesOtherMonth(p)
    /\ pre.leave[task[p].id].emp \in DOMAIN employee
    /\ LET row == pre.employee[pre.leave[task[p].id].emp] IN
         /\ row.month = task[p].cm
         /\ row.used + pre.leave[task[p].id].days <= row.quota
    /\ employee = pre.employee
    /\ leave[task[p].id].status = "approved"

\* A finished POST that stored a request.
Created(p) ==
  /\ Answered(p, "post")
  /\ task[p].res = "ok"
  /\ task[p].id \in DOMAIN leave

C28_StatusInSet ==
  \A i \in DOMAIN leave : leave[i].status \in StatusArgs

\* C29: a step changes the row of an employee (quota, used, month) only when
\* it is a step of an operation for that employee; an operation for one
\* employee leaves the rows of the others as they are, so operations on
\* different employees commute.
C29_OtherEmployeesUntouched ==
  [][\A e \in DOMAIN employee :
       employee'[e] # employee[e]
         => \E p \in Procs : task'[p] # task[p] /\ task[p].emp = e]_vars

C29_Witness ==
  /\ \A p \in EmpPair :
       /\ Answered(p, "consume")
       /\ task[p].res = "ok"
       /\ task[p].emp = p
       /\ task[p].days > 0
  /\ employee[1].used # employee[2].used
  /\ \A e \in EmpPair :
       employee[e].used = EffectiveUsed(pre.employee[e], clock) + task[e].days

\* C30: a restore of days consumed in a month that has closed leaves the
\* balance of the current month (used when the stored month is the current
\* one, else 0) as it was, in every step of the restore and for every order of
\* the month change, the rollover and the restore.
C30_ClosedMonthRestoreNoEffect ==
  [][\A p \in Procs :
       (task[p].op = "restore" /\ task'[p] # task[p]
        /\ task[p].emp \in DOMAIN employee)
         => EffectiveUsed(employee'[task[p].emp], clock')
              = EffectiveUsed(employee[task[p].emp], clock)]_vars

\* C31: when the approval of a pending Cuti request of the current month
\* fails in consume, the caller gets the failure, the request stays pending
\* and the employee's row is what it was; and such a request is stored
\* approved only with its days added to the month's balance.
C31_FailedApprovalChangesNothing ==
  \A p \in Procs :
    ApprovesInMonth(p) =>
      LET id == task[p].id
          e == pre.leave[id].emp IN
      /\ task[p].res # "ok"
           => /\ task[p].res = "Failed"
              /\ leave[id].status = "pending"
              /\ employee[e].used = pre.employee[e].used
      /\ leave[id].status = "approved"
           => /\ task[p].res = "ok"
              /\ employee[e].used =
                   EffectiveUsed(pre.employee[e], task[p].cm) + pre.leave[id].days

C31_Witness ==
  \E p \in Procs :
    /\ ApprovesInMonth(p)
    /\ task[p].res = "Failed"
    /\ leave[task[p].id].status = "pending"
    /\ LET row == pre.employee[pre.leave[task[p].id].emp] IN
         /\ row.month = task[p].cm
         /\ row.used > 0
         /\ row.used + pre.leave[task[p].id].days > row.quota
         /\ employee[pre.leave[task[p].id].emp] = row

\* The stored requests of employee e that are approved, of kind Cuti and start
\* in the current month.
ApprovedThisMonth(e) ==
  { i \in DOMAIN leave :
      /\ leave[i].emp = e
      /\ leave[i].status = "approved"
      /\ leave[i].kind = "Cuti"
      /\ leave[i].lmonth = clock }

\* C32: within one month, between calls, the stored used of every employee is
\* the sum of totalDays over the employee's stored requests that are approved,
\* of kind Cuti and start in the current month.
C32_UsedIsApprovedSum ==
  (\A p \in Procs : task[p].pc \in {"idle", "done"})
    => \A e \in DOMAIN employee :
         employee[e].used = SumTotalDays(ApprovedThisMonth(e))

\* C33: a request of kind Sakit or Izin never touches the quota.  Its POST, a
\* PUT of any status on it and its DELETE leave every employee row as it was,
\* and its POST for an existing employee (a Sakit one with its letter)
\* succeeds whatever the remaining allowance.
C33_OtherKindsLeaveQuota ==
  \A p \in Procs :
    /\ (Answered(p, "post") /\ task[p].kind # "Cuti")
         => /\ employee = pre.employee
            /\ (task[p].emp \in DOMAIN employee
                 /\ ~SickWithoutLetter(task[p].kind, task[p].file))
                 => /\ task[p].res = "ok"
                    /\ task[p].id \in DOMAIN leave
                    /\ leave[task[p].id].kind = task[p].kind
    /\ (/\ Answered(p, "put") \/ Answered(p, "delete")
        /\ task[p].id \in DOMAIN pre.leave
        /\ pre.leave[task[p].id].kind # "Cuti")
         => /\ employee = pre.employee
            /\ task[p].res = "ok"

C33_Witness ==
  \E p \in Procs :
    /\ Answered(p, "put")
    /\ task[p].status = "approved"
    /\ task[p].id \in DOMAIN pre.leave
    /\ pre.leave[task[p].id].kind = "Sakit"
    /\ pre.leave[task[p].id].status = "pending"
    /\ pre.leave[task[p].id].lmonth = task[p].cm
    /\ LET row == pre.employee[pre.leave[task[p].id].emp] IN
         /\ row.month = task[p].cm
         /\ row.used + pre.leave[task[p].id].days <= row.quota
    /\ leave[task[p].id].status = "approved"
    /\ employee = pre.employee
====
